---- MODULE Spec2Model ----
(***************************************************************************)
(* A model of the ACB accounting core of cad-capital-gains:                *)
(*   - TickerGains (capgains/ticker_gains.py): the per-ticker cost-basis   *)
(*     engine, its apply step and its superficial-loss test;               *)
(*   - Transactions (capgains/transactions.py): the ledger, its journal    *)
(*     reconciliation and filter_by;                                       *)
(*   - ExchangeRate (capgains/exchange_rate.py): the construction of a     *)
(*     rate table from the provider's answer and the rate lookup.          *)
(*                                                                         *)
(* Numbers.  Dates are day ordinals, day 1 being 2017-01-01, so that       *)
(* ExchangeRate.min_date (2017-01-03) is day 3 and a timedelta is a        *)
(* difference of ordinals.  Quantities, prices, commissions and rates are  *)
(* whole numbers.  Money amounts (proceeds, acb, capital_gain, total_acb)  *)
(* are Decimal values held as integers in units of 10^-FracDigits: sums,   *)
(* differences and products of the model's inputs are exact, as they are   *)
(* in Python's Decimal, and a quotient is rounded half-even to the last    *)
(* kept digit, as Decimal rounds it to its last significant digit.         *)
(***************************************************************************)
EXTENDS Integers, Sequences, FiniteSets, TLC

VARIABLES
    ticker,          \* TickerGains._ticker
    share_balance,   \* TickerGains._share_balance
    total_acb,       \* TickerGains._total_acb (scaled)
    transactions,    \* the list passed to add_transactions, records stamped in place
    exchange_rates,  \* the map currency -> rate table passed to add_transactions
    i,               \* position of the for loop of add_transactions
    pc,              \* where add_transactions stands
    err,             \* the exception that ended add_transactions, or "none"
    before,          \* history: the engine's fields when _add_transaction was last entered
    heap,            \* the Transaction objects the ledgers hold references to
    ledger,          \* a Transactions object: the receiver of filter_by
    ledgerBy,        \* history: the arguments, if only a year, of the filter_by that made ledger
    filtered,        \* <<the Transactions object the last filter_by returned>>, or <<>>
    lastCall,        \* history: the arguments of the last filter_by
    heapBefore,      \* history: heap when the last filter_by was called
    table_pc,        \* an ExchangeRate object: "new" before __init__, then "ready" or "failed"
    table_err,       \* the exception that ended ExchangeRate.__init__, or "none"
    table_start,     \* ExchangeRate._start_date
    table_end,       \* ExchangeRate._end_date
    table_rates,     \* <<ExchangeRate._rates>> once the mapping is built, else <<>>
    requests_sent,   \* the number of requests.get calls made
    asked,           \* history: the date of the last get_rate call, 0 if none
    answer,          \* history: what the last get_rate call returned or raised
    rates_map,       \* what _get_map_of_currencies_to_exchange_rates returned or raised
    td_transactions, \* the list of extracted dicts handed to clean_transactions
    td_output,       \* <<the list clean_transactions returned>>, or <<>>
    engines,         \* the TickerGains objects run side by side, by ticker
    shared           \* the Transaction objects of the ledger the engines' slices share

engineVars == <<ticker, share_balance, total_acb, transactions, exchange_rates, i, pc,
                err, before>>
ledgerVars == <<heap, ledger, ledgerBy, filtered, lastCall, heapBefore>>
rateVars == <<table_pc, table_err, table_start, table_end, table_rates, requests_sent,
              asked, answer>>
showVars == <<rates_map>>
converterVars == <<td_transactions, td_output>>
parallelVars == <<engines, shared>>
addedVars == <<showVars, converterVars, parallelVars>>
vars == <<engineVars, ledgerVars, rateVars, addedVars>>

----------------------------------------------------------------------------
(* Bounds of the model *)

FracDigits == 3
MaxLen == 3
MaxWindowLen == 3
MaxQty == 3
MaxLedgerLen == 3
MaxDay == 12
MaxObservations == 3
MaxJournals == 3

(* Program constants *)

MinDate == 3
WindowDays == 30
BackPadDays == 7

Scale == 10 ^ FracDigits

----------------------------------------------------------------------------
(* Decimal arithmetic *)

Abs(x) == IF x < 0 THEN -x ELSE x

\* n / d for d > 0, rounded half-even to an integer
RoundHalfEven(n, d) ==
    LET q == n \div d
        r == n % d
    IN  IF 2 * r < d THEN q
        ELSE IF 2 * r > d THEN q + 1
        ELSE IF q % 2 = 0 THEN q ELSE q + 1

\* Decimal division of a scaled amount by a whole number
DecDiv(amount, n) ==
    IF n > 0 THEN RoundHalfEven(amount, n) ELSE RoundHalfEven(-amount, -n)

----------------------------------------------------------------------------
(* ExchangeRate: a rate table is a function from the observation dates to  *)
(* the rates                                                               *)

GetClosestRateForDayFromMinDate(rates, date) ==
    IF date < MinDate THEN [kind |-> "None", rate |-> 0]
    ELSE IF date \in DOMAIN rates THEN [kind |-> "rate", rate |-> rates[date]]
    ELSE LET dates_preceeding == {d \in DOMAIN rates : d < date}
         IN  IF dates_preceeding = {} THEN [kind |-> "ValueError", rate |-> 0]
             ELSE LET closest_date ==
                          CHOOSE d \in dates_preceeding :
                              \A e \in dates_preceeding : Abs(d - date) <= Abs(e - date)
                  IN  [kind |-> "rate", rate |-> rates[closest_date]]

GetFarthestRateForDay(rates, date) ==
    IF date <= MinDate THEN [kind |-> "None", rate |-> 0]
    ELSE IF date \in DOMAIN rates THEN [kind |-> "rate", rate |-> rates[date]]
    ELSE LET dates_preceeding == {d \in DOMAIN rates : d < date}
         IN  IF dates_preceeding = {} THEN [kind |-> "ValueError", rate |-> 0]
             ELSE LET farthest_date ==
                          CHOOSE d \in dates_preceeding :
                              \A e \in dates_preceeding : Abs(d - date) >= Abs(e - date)
                  IN  [kind |-> "rate", rate |-> rates[farthest_date]]

\* min(dates_preceeding, key=lambda d: abs(d - date)); of an empty list, ValueError
GetClosestRateForDay(rates, date) ==
    IF date <= MinDate THEN [kind |-> "None", rate |-> 0]
    ELSE IF date \in DOMAIN rates THEN [kind |-> "rate", rate |-> rates[date]]
    ELSE LET dates_preceeding == {d \in DOMAIN rates : d < date}
         IN  IF dates_preceeding = {} THEN [kind |-> "ValueError", rate |-> 0]
             ELSE LET closest_date ==
                          CHOOSE d \in dates_preceeding :
                              \A e \in dates_preceeding : Abs(d - date) <= Abs(e - date)
                  IN  [kind |-> "rate", rate |-> rates[closest_date]]

\* get_rate: "if not rate" raises for None and for a rate of 0
GetRate(rates, date) ==
    LET r == GetClosestRateForDay(rates, date)
    IN  IF r.kind = "ValueError" THEN [ok |-> FALSE, error |-> "ValueError", rate |-> 0]
        ELSE IF r.kind = "None" \/ r.rate = 0
             THEN [ok |-> FALSE, error |-> "RateNotFound", rate |-> 0]
             ELSE [ok |-> TRUE, error |-> "none", rate |-> r.rate]

----------------------------------------------------------------------------
(* Transaction: the record the engine stamps *)

Actions == {"BUY", "SELL", "JOURNAL_IN", "JOURNAL_OUT", "JOURNAL"}

NewTransaction(date, tkr, action, qty, price, commission, currency) ==
    [date |-> date, ticker |-> tkr, action |-> action, qty |-> qty,
     price |-> price, commission |-> commission, currency |-> currency,
     exchange_rate |-> 0, proceeds |-> 0, capital_gain |-> 0, acb |-> 0,
     share_balance |-> 0, cumulative_cost |-> 0,
     superficial_loss |-> FALSE, stamped |-> FALSE]

\* Transaction.add_rate: the rate of the transaction's currency on its date
AddRate(t, rateMap) == GetRate(rateMap[t.currency], t.date)

\* Transaction.expenses: the commission in CAD
Expenses(t) == t.commission * t.exchange_rate * Scale

\* Transaction.set_superficial_loss
SetSuperficialLoss(t) == [t EXCEPT !.superficial_loss = TRUE]

----------------------------------------------------------------------------
(* TickerGains._add_transaction *)

\* 'JOURNAL' in transaction.action
IsJournal(action) == action \in {"JOURNAL", "JOURNAL_IN", "JOURNAL_OUT"}

JournalBalanceSwapped(action, bal, qty) ==
    IF action = "JOURNAL_IN" THEN bal - qty
    ELSE IF action = "JOURNAL_OUT" THEN bal + qty
    ELSE bal

JournalBalance(action, bal, qty) ==
    IF action = "JOURNAL_IN" THEN bal + qty
    ELSE IF action = "JOURNAL_OUT" THEN bal - qty
    ELSE bal

JournalStampWithCost(t, bal, total) ==
    [t EXCEPT !.proceeds = 0, !.capital_gain = 0, !.acb = total,
              !.share_balance = bal, !.cumulative_cost = total, !.stamped = TRUE]

JournalStamp(t, bal, total) ==
    [t EXCEPT !.proceeds = 0, !.capital_gain = 0, !.acb = 0,
              !.share_balance = bal, !.cumulative_cost = total, !.stamped = TRUE]

OldAcbPerShareRoundedUp(total, bal) == IF bal = 0 THEN 0 ELSE -((-total) \div bal)

OldAcbPerShareTruncated(total, bal) == IF bal = 0 THEN 0 ELSE total \div bal

OldAcbPerShare(total, bal) == IF bal = 0 THEN 0 ELSE DecDiv(total, bal)

Proceeds(t) == t.qty * t.price * t.exchange_rate * Scale

SellGainNoExpenses(proceeds, expenses, acb) == proceeds - acb

SellGain(proceeds, expenses, acb) == proceeds - expenses - acb

BuyAcbNoExpenses(proceeds, expenses) == proceeds

BuyAcb(proceeds, expenses) == proceeds + expenses

AddTransactionStampFirst(t, bal, total) ==
    IF IsJournal(t.action)
    THEN LET b == JournalBalance(t.action, bal, t.qty)
         IN  [raised |-> FALSE, share_balance |-> b, total_acb |-> total,
              t |-> JournalStamp(t, b, total)]
    ELSE LET old_acb_per_share == OldAcbPerShare(total, bal)
             proceeds == Proceeds(t)
             sell == t.action = "SELL"
             b == IF sell THEN bal - t.qty ELSE bal + t.qty
             acb == IF sell THEN old_acb_per_share * t.qty
                    ELSE BuyAcb(proceeds, Expenses(t))
             capital_gain == IF sell THEN SellGain(proceeds, Expenses(t), acb) ELSE 0
             tot == IF sell THEN total - acb ELSE total + acb
         IN  [raised |-> b < 0, share_balance |-> b, total_acb |-> tot,
              t |-> [t EXCEPT !.share_balance = b, !.proceeds = proceeds,
                              !.capital_gain = capital_gain, !.acb = acb,
                              !.cumulative_cost = tot, !.stamped = b >= 0]]

AddTransactionUnchecked(t, bal, total) ==
    IF IsJournal(t.action)
    THEN LET b == JournalBalance(t.action, bal, t.qty)
         IN  [raised |-> FALSE, share_balance |-> b, total_acb |-> total,
              t |-> JournalStamp(t, b, total)]
    ELSE LET old_acb_per_share == OldAcbPerShare(total, bal)
             proceeds == Proceeds(t)
             sell == t.action = "SELL"
             b == IF sell THEN bal - t.qty ELSE bal + t.qty
             acb == IF sell THEN old_acb_per_share * t.qty
                    ELSE BuyAcb(proceeds, Expenses(t))
             capital_gain == IF sell THEN SellGain(proceeds, Expenses(t), acb) ELSE 0
             tot == IF sell THEN total - acb ELSE total + acb
         IN  [raised |-> FALSE, share_balance |-> b, total_acb |-> tot,
              t |-> [t EXCEPT !.share_balance = b, !.proceeds = proceeds,
                              !.capital_gain = capital_gain, !.acb = acb,
                              !.cumulative_cost = tot, !.stamped = TRUE]]

\* The outcome of _add_transaction(t) on an engine holding (bal, total):
\* raised, the engine's fields as the call leaves them, and the record.
AddTransaction(t, bal, total) ==
    IF IsJournal(t.action)
    THEN LET b == JournalBalance(t.action, bal, t.qty)
         IN  [raised |-> FALSE, share_balance |-> b, total_acb |-> total,
              t |-> JournalStamp(t, b, total)]
    ELSE LET old_acb_per_share == OldAcbPerShare(total, bal)
             proceeds == Proceeds(t)
             sell == t.action = "SELL"
             b == IF sell THEN bal - t.qty ELSE bal + t.qty
             acb == IF sell THEN old_acb_per_share * t.qty
                    ELSE BuyAcb(proceeds, Expenses(t))
             capital_gain == IF sell THEN SellGain(proceeds, Expenses(t), acb) ELSE 0
             tot == IF sell THEN total - acb ELSE total + acb
         IN  IF b < 0
             THEN [raised |-> TRUE, share_balance |-> b, total_acb |-> tot, t |-> t]
             ELSE [raised |-> FALSE, share_balance |-> b, total_acb |-> tot,
                   t |-> [t EXCEPT !.share_balance = b, !.proceeds = proceeds,
                                   !.capital_gain = capital_gain, !.acb = acb,
                                   !.cumulative_cost = tot, !.stamped = TRUE]]

----------------------------------------------------------------------------
(* TickerGains._is_superficial_loss *)

SuperficialWindowFilterAnyTicker(t, tkr, min_date, max_date) ==
    t.date >= min_date /\ t.date <= max_date

SuperficialWindowFilterStrict(t, tkr, min_date, max_date) ==
    t.ticker = tkr /\ t.date > min_date /\ t.date < max_date

SuperficialWindowFilter(t, tkr, min_date, max_date) ==
    t.ticker = tkr /\ t.date >= min_date /\ t.date <= max_date

\* the walk over filtered_transactions[transaction_idx + 1:], by list position
RECURSIVE WindowBalance(_, _, _, _)
WindowBalance(txs, inWindow, k, balance) ==
    IF k > Len(txs) THEN balance
    ELSE LET w == txs[k]
             b == IF k \notin inWindow THEN balance
                  ELSE IF w.action = "SELL" THEN balance - w.qty
                  ELSE IF w.action = "BUY" THEN balance + w.qty
                  ELSE IF w.action = "JOURNAL_IN" THEN balance + w.qty
                  ELSE IF w.action = "JOURNAL_OUT" THEN balance - w.qty
                  ELSE balance
         IN  WindowBalance(txs, inWindow, k + 1, b)

\* "TRUE", "FALSE", or "ValueError" when list.index does not find the transaction
IsSuperficialLoss(txs, k, tkr) ==
    LET t == txs[k]
        min_date == t.date - WindowDays
        max_date == t.date + WindowDays
        inWindow == {j \in 1..Len(txs) :
                        SuperficialWindowFilter(txs[j], tkr, min_date, max_date)}
    IN  IF IsJournal(t.action) THEN "FALSE"
        ELSE IF t.capital_gain >= 0 THEN "FALSE"
        ELSE IF ~ \E j \in inWindow : txs[j].action = "BUY" THEN "FALSE"
        ELSE IF k \notin inWindow THEN "ValueError"
        ELSE IF WindowBalance(txs, inWindow, k + 1, t.share_balance) > 0
             THEN "TRUE" ELSE "FALSE"

ReverseLossWrongSign(total, capital_gain) == total + capital_gain

ReverseLoss(total, capital_gain) == total - capital_gain

----------------------------------------------------------------------------
(* TickerGains.add_transactions: one loop iteration is Apply (add_rate and *)
(* _add_transaction) followed by CheckSuperficial                          *)

Apply ==
    /\ pc = "add"
    /\ LET rate == AddRate(transactions[i], exchange_rates)
       IN  IF ~ rate.ok
           THEN /\ pc' = "failed"
                /\ err' = rate.error
                /\ UNCHANGED <<share_balance, total_acb, transactions, before>>
           ELSE LET t == [transactions[i] EXCEPT !.exchange_rate = rate.rate]
                    r == AddTransaction(t, share_balance, total_acb)
                IN  /\ share_balance' = r.share_balance
                    /\ total_acb' = r.total_acb
                    /\ transactions' = [transactions EXCEPT ![i] = r.t]
                    /\ pc' = IF r.raised THEN "failed" ELSE "superficial"
                    /\ err' = IF r.raised THEN "NegativeBalance" ELSE "none"
                    /\ before' = [share_balance |-> share_balance, total_acb |-> total_acb]
    /\ UNCHANGED <<ticker, exchange_rates, i, ledgerVars, rateVars, addedVars>>

CheckSuperficial ==
    /\ pc = "superficial"
    /\ LET s == IsSuperficialLoss(transactions, i, ticker)
       IN  IF s = "ValueError"
           THEN /\ pc' = "failed"
                /\ err' = "ValueError"
                /\ UNCHANGED <<total_acb, transactions, i>>
           ELSE /\ total_acb' = IF s = "TRUE"
                                THEN ReverseLoss(total_acb, transactions[i].capital_gain)
                                ELSE total_acb
                /\ transactions' = IF s = "TRUE"
                                   THEN [transactions EXCEPT
                                            ![i] = SetSuperficialLoss(transactions[i])]
                                   ELSE transactions
                /\ i' = i + 1
                /\ pc' = IF i + 1 > Len(transactions) THEN "done" ELSE "add"
                /\ err' = "none"
    /\ UNCHANGED <<ticker, share_balance, exchange_rates, before, ledgerVars, rateVars, addedVars>>

----------------------------------------------------------------------------
(* The lists handed to add_transactions *)

Tickers == {"A", "B"}
Currencies == {"CAD", "USD"}

\* sequences over S of length 1..n
SeqsUpTo(S, n) == UNION {[1..m -> S] : m \in 1..n}

\* trades and journals of one ticker on one day, over every qty, price,
\* commission and currency
ArithTxns ==
    {NewTransaction(10, "A", a, q, p, cc[1], cc[2]) :
        a \in {"BUY", "SELL"}, q \in 1..2, p \in 1..2,
        cc \in {<<0, "CAD">>, <<1, "USD">>}}
    \cup {NewTransaction(10, "A", a, q, 1, 1, "USD") :
        a \in {"JOURNAL_IN", "JOURNAL_OUT", "JOURNAL"}, q \in {1}}

\* two tickers over days 30 and 31 days apart
WindowDates == {10, 40, 41}

WindowTxns ==
    {NewTransaction(d, k, s[1], s[2], s[3], 0, "CAD") :
        d \in WindowDates, k \in Tickers,
        s \in {<<"BUY", 2, 2>>, <<"SELL", 1, 1>>, <<"SELL", 2, 1>>,
               <<"JOURNAL_IN", 1, 0>>, <<"JOURNAL_OUT", 1, 0>>}}

\* a loss needs a cost: the window lists open with a BUY of the engine's ticker
OpeningBuys ==
    {NewTransaction(d, "A", "BUY", 2, 2, 0, "CAD") : d \in WindowDates}

WindowLists ==
    {<<b>> \o rest : b \in OpeningBuys, rest \in SeqsUpTo(WindowTxns, MaxWindowLen - 1)}

\* Norbert's Gambit: BUY q, JOURNAL_OUT q, JOURNAL_IN q, SELL q
GambitLists ==
    {<<NewTransaction(10, "A", "BUY", q, pb, c, cur[1]),
       NewTransaction(10, "A", "JOURNAL_OUT", q, 0, 0, cur[1]),
       NewTransaction(10, "A", "JOURNAL_IN", q, 0, 0, cur[2]),
       NewTransaction(11, "A", "SELL", q, ps, c, cur[2])>> :
        q \in 1..MaxQty, pb \in 1..2, ps \in 1..2, c \in 0..1,
        cur \in {<<"USD", "CAD">>, <<"CAD", "USD">>}}

\* a BUY and a later-dated SELL it funds, in date order and in the other order
UnsortedLists ==
    UNION {{<<b, s>>, <<s, b>>} :
        b \in {NewTransaction(10, "A", "BUY", 2, 2, 0, "CAD")},
        s \in {NewTransaction(11, "A", "SELL", q, p, 0, "CAD") : q \in 1..2, p \in {1, 3}}}

RateTables == [CAD |-> (4 :> 1), USD |-> (4 :> 2)]

----------------------------------------------------------------------------
(* Transactions: the ledger.  A ledger holds references (indices into heap) *)
(* to Transaction objects; filter_by hands the same objects to a new ledger *)

Year(date) == 2017 + (date - 1) \div 365

NewLedgerTransaction(date, tkr, action, qty, currency, text, flag) ==
    [date |-> date, ticker |-> tkr, action |-> action, qty |-> qty,
     currency |-> currency, original_text |-> text, superficial_loss |-> flag]

EmptyLedger == [transactions |-> <<>>, tickers |-> <<>>, year_min |-> 9999, year_max |-> 0]

Min(a, b) == IF a <= b THEN a ELSE b
Max(a, b) == IF a >= b THEN a ELSE b

AddToLedgerAtFront(L, h, x) ==
    LET t == h[x]
        ticker_refcount == (IF t.ticker \in DOMAIN L.tickers THEN L.tickers[t.ticker] ELSE 0) + 1
    IN  [transactions |-> <<x>> \o L.transactions,
         tickers |-> [k \in DOMAIN L.tickers \cup {t.ticker} |->
                        IF k = t.ticker THEN ticker_refcount ELSE L.tickers[k]],
         year_min |-> Min(L.year_min, Year(t.date)),
         year_max |-> Max(L.year_max, Year(t.date))]

AddToLedgerCountOnce(L, h, x) ==
    LET t == h[x]
    IN  [transactions |-> Append(L.transactions, x),
         tickers |-> [k \in DOMAIN L.tickers \cup {t.ticker} |->
                        IF k = t.ticker THEN 1 ELSE L.tickers[k]],
         year_min |-> Min(L.year_min, Year(t.date)),
         year_max |-> Max(L.year_max, Year(t.date))]

\* Transactions.add_transaction of the object at heap index x
AddToLedger(L, h, x) ==
    LET t == h[x]
        ticker_refcount == (IF t.ticker \in DOMAIN L.tickers THEN L.tickers[t.ticker] ELSE 0) + 1
    IN  [transactions |-> Append(L.transactions, x),
         tickers |-> [k \in DOMAIN L.tickers \cup {t.ticker} |->
                        IF k = t.ticker THEN ticker_refcount ELSE L.tickers[k]],
         year_min |-> Min(L.year_min, Year(t.date)),
         year_max |-> Max(L.year_max, Year(t.date))]

RECURSIVE AddAll(_, _, _)
AddAll(L, h, xs) ==
    IF xs = <<>> THEN L ELSE AddAll(AddToLedger(L, h, Head(xs)), h, Tail(xs))

\* 'Transfer Out' in original_text or 'Transferred Out' in original_text
HasTransferOut(text) == text \in {"Transfer Out", "Transferred Out then Transfer In"}
\* 'Transfer In' in original_text or 'Transferred In' in original_text
HasTransferIn(text) == text \in {"Transfer In", "Transferred Out then Transfer In"}

\* the action the text gives a generic JOURNAL, if any
ByText(action, text) ==
    IF text = "" THEN action
    ELSE IF HasTransferOut(text) THEN "JOURNAL_OUT"
    ELSE IF HasTransferIn(text) THEN "JOURNAL_IN"
    ELSE action

\* a single journal, or one of a group of three or more
ResolveAlone(t) ==
    IF t.action # "JOURNAL" THEN t.action
    ELSE IF t.original_text # "" THEN ByText(t.action, t.original_text)
    ELSE IF t.currency = "CAD" THEN "JOURNAL_IN"
    ELSE "JOURNAL_OUT"

\* sorted(group, key=lambda t: t.currency): stable, "CAD" < "USD"
SortedByCurrency(h, a, b) ==
    IF h[b].currency = "CAD" /\ h[a].currency # "CAD" THEN <<b, a>> ELSE <<a, b>>

EitherGeneric(a1, a2) == a1 = "JOURNAL" \/ a2 = "JOURNAL"

\* all(t.action == 'JOURNAL' for t in group)
BothGeneric(a1, a2) == a1 = "JOURNAL" /\ a2 = "JOURNAL"

\* a group of two, a before b in the ledger: the actions of a and b afterwards
ResolvePair(h, a, b) ==
    LET unchanged == [x \in {a, b} |-> h[x].action]
    IN  IF {"JOURNAL_IN", "JOURNAL_OUT"} \subseteq {h[a].action, h[b].action}
        THEN unchanged
        ELSE IF ~ BothGeneric(h[a].action, h[b].action) THEN unchanged
        ELSE LET sorted_group == SortedByCurrency(h, a, b)
                 s1 == sorted_group[1]
                 s2 == sorted_group[2]
                 t1 == IF h[s1].action = "JOURNAL"
                       THEN ByText(h[s1].action, h[s1].original_text) ELSE h[s1].action
                 t2 == IF h[s2].action = "JOURNAL"
                       THEN ByText(h[s2].action, h[s2].original_text) ELSE h[s2].action
                 \* the heuristic pass: in_tx and out_tx are set by s1 only
                 in1 == t1 = "JOURNAL" /\ h[s1].currency = "CAD"
                 out1 == t1 = "JOURNAL" /\ ~ in1
                 u1 == IF in1 THEN "JOURNAL_IN" ELSE IF out1 THEN "JOURNAL_OUT" ELSE t1
                 u2 == IF t2 # "JOURNAL" THEN t2
                       ELSE IF ~ in1 /\ h[s2].currency = "CAD" THEN "JOURNAL_IN"
                       ELSE IF ~ out1 THEN "JOURNAL_OUT"
                       ELSE t2
             IN  [x \in {a, b} |-> IF x = s1 THEN u1 ELSE u2]

\* Transactions.match_journal_transactions over the ledger's list xs
MatchJournalTransactions(h, xs) ==
    LET journals == {k \in 1..Len(xs) : IsJournal(h[xs[k]].action)}
        \* the positions grouped with position k: same (date, float(qty))
        group(k) == {m \in journals : /\ h[xs[m]].date = h[xs[k]].date
                                      /\ h[xs[m]].qty = h[xs[k]].qty}
        newAction(k) ==
            LET g == group(k)
            IN  IF Cardinality(g) = 2
                THEN LET a == CHOOSE m \in g : \A n \in g : m <= n
                         b == CHOOSE m \in g : \A n \in g : m >= n
                     IN  ResolvePair(h, xs[a], xs[b])[xs[k]]
                ELSE ResolveAlone(h[xs[k]])
        held == {xs[k] : k \in journals}
    IN  [x \in DOMAIN h |->
            IF x \in held
            THEN LET k == CHOOSE m \in journals : xs[m] = x
                 IN  [h[x] EXCEPT !.action = newAction(k)]
            ELSE h[x]]

\* Transactions.__init__ over the objects xs: the ledger and the heap it leaves
Construct(h, xs) ==
    [ledger |-> AddAll(EmptyLedger, h, xs), heap |-> MatchJournalTransactions(h, xs)]

\* filter_by arguments; a falsy value (None, an empty tuple, 0, '') is unset
NoFilter == [tickers |-> {}, year |-> 0, max_year |-> 0, action |-> "",
             superficial_loss |-> "None"]

LambdaFilterFalseUnset(t, f) ==
    /\ (f.tickers # {}) => t.ticker \in f.tickers
    /\ (f.year # 0) => Year(t.date) = f.year
    /\ (f.max_year # 0) => Year(t.date) <= f.max_year
    /\ (f.action # "") => t.action = f.action
    /\ (f.superficial_loss = "True") => t.superficial_loss

\* lambda_filter: "if tickers:", "if year:", "if max_year:", "if action:" and
\* "if superficial_loss is not None:"
LambdaFilter(t, f) ==
    /\ (f.tickers # {}) => t.ticker \in f.tickers
    /\ (f.year # 0) => Year(t.date) = f.year
    /\ (f.max_year # 0) => Year(t.date) <= f.max_year
    /\ (f.action # "") => t.action = f.action
    /\ (f.superficial_loss # "None") => (t.superficial_loss <=> f.superficial_loss = "True")

\* Transactions.filter_by: the new ledger and the heap its construction leaves
FilterByResult(h, L, f) ==
    Construct(h, SelectSeq(L.transactions, LAMBDA x : LambdaFilter(h[x], f)))

\* one call ledger.filter_by(**f); the caller holds one result at a time
FilterBy(f) ==
    /\ pc = "ledger"
    /\ filtered = <<>>
    /\ LET r == FilterByResult(heap, ledger, f)
       IN  /\ heap' = r.heap
           /\ filtered' = <<r.ledger>>
    /\ lastCall' = f
    /\ heapBefore' = heap
    /\ UNCHANGED <<ledger, ledgerBy, engineVars, rateVars, addedVars>>

\* one call ledger.add_transaction(t) with a new Transaction object t
LedgerAdd(t) ==
    /\ pc = "ledger"
    /\ filtered = <<>>
    /\ Len(heap) < MaxLedgerLen
    /\ heap' = Append(heap, t)
    /\ ledger' = AddToLedger(ledger, Append(heap, t), Len(heap) + 1)
    /\ ledgerBy' = NoFilter
    /\ heapBefore' = Append(heap, t)
    /\ UNCHANGED <<filtered, lastCall, engineVars, rateVars, addedVars>>

\* the caller goes on with the ledger filter_by returned
Continue ==
    /\ pc = "ledger"
    /\ filtered # <<>>
    /\ ledger' = filtered[1]
    /\ ledgerBy' = IF lastCall = [NoFilter EXCEPT !.year = lastCall.year]
                   THEN lastCall ELSE NoFilter
    /\ filtered' = <<>>
    /\ lastCall' = NoFilter
    /\ heapBefore' = heap
    /\ UNCHANGED <<heap, engineVars, rateVars, addedVars>>

\* the caller drops the ledger filter_by returned and keeps the receiver
Discard ==
    /\ pc = "ledger"
    /\ filtered # <<>>
    /\ filtered' = <<>>
    /\ lastCall' = NoFilter
    /\ heapBefore' = heap
    /\ UNCHANGED <<heap, ledger, ledgerBy, engineVars, rateVars, addedVars>>

\* the ledgers filter_by is called on
LedgerTxns ==
    {NewLedgerTransaction(10, "A", "JOURNAL", 1, "USD", "", FALSE),
     NewLedgerTransaction(10, "B", "JOURNAL", 1, "USD", "", FALSE),
     NewLedgerTransaction(10, "A", "JOURNAL", 1, "CAD", "", FALSE),
     NewLedgerTransaction(10, "B", "JOURNAL", 1, "USD", "memo", FALSE),
     NewLedgerTransaction(10, "A", "BUY", 1, "CAD", "", FALSE),
     NewLedgerTransaction(400, "B", "BUY", 1, "CAD", "", FALSE),
     NewLedgerTransaction(10, "A", "SELL", 1, "USD", "", TRUE),
     NewLedgerTransaction(400, "A", "SELL", 1, "USD", "", FALSE)}

\* the transactions add_transaction is called with: another ticker and year,
\* a journal, a trade
AddedTxns ==
    {NewLedgerTransaction(400, "B", "BUY", 1, "CAD", "", FALSE),
     NewLedgerTransaction(10, "A", "JOURNAL", 1, "USD", "", FALSE),
     NewLedgerTransaction(10, "A", "SELL", 1, "USD", "", TRUE)}

FilterArgs ==
    {NoFilter}
    \cup {[NoFilter EXCEPT !.tickers = {k}] : k \in Tickers}
    \cup {[NoFilter EXCEPT !.year = y] : y \in {2017, 2018}}
    \cup {[NoFilter EXCEPT !.action = "JOURNAL"],
          [NoFilter EXCEPT !.max_year = 2017],
          [NoFilter EXCEPT !.superficial_loss = "False"]}

----------------------------------------------------------------------------
(* ExchangeRate.__init__ and the calls of get_rate *)

DateRangeErrorEndOnly(start, end) ==
    IF end < start THEN "EndBeforeStart" ELSE "none"

\* the two checks made on the arguments before anything else
DateRangeError(start, end) ==
    IF end < start THEN "EndBeforeStart"
    ELSE IF start < MinDate THEN "StartBeforeMinDate"
    ELSE "none"

\* the rate the provider publishes for the day d, when it publishes one
RateOn(d) == 100 + d

\* What requests.get(url, params) and response.json() can give for the range
\* from..end: an exception of requests, a body without "observations", or
\* observations: some days of the range, none before the first day of the
\* provider's series (min_date), each with its rate.
Responses(from, end) ==
    {[kind |-> k, observations |-> <<>>] : k \in {"RequestException", "KeyError"}}
    \cup {[kind |-> "observations", observations |-> [d \in D |-> RateOn(d)]] :
            D \in {E \in SUBSET (Max(from, MinDate)..end) :
                       Cardinality(E) <= MaxObservations}}

\* ExchangeRate.__init__(currency_from, start, end), the provider answering
\* response: the exception raised if any, the requests sent, the mapping built
ExchangeRateInit(start, end, response) ==
    IF DateRangeError(start, end) # "none"
    THEN [err |-> DateRangeError(start, end), sent |-> 0, rates |-> <<>>]
    ELSE IF response.kind = "RequestException"
    THEN [err |-> "RequestError", sent |-> 1, rates |-> <<>>]
    ELSE IF response.kind = "KeyError"
    THEN [err |-> "NoObservations", sent |-> 1, rates |-> <<>>]
    ELSE [err |-> "none", sent |-> 1, rates |-> <<response.observations>>]

NewExchangeRate(start, end) ==
    /\ table_pc = "new"
    /\ \E response \in Responses(start - BackPadDays, end) :
          LET r == ExchangeRateInit(start, end, response)
          IN  /\ table_pc' = IF r.err = "none" THEN "ready" ELSE "failed"
              /\ table_err' = r.err
              /\ table_rates' = r.rates
              /\ requests_sent' = requests_sent + r.sent
    /\ table_start' = start
    /\ table_end' = end
    /\ UNCHANGED <<asked, answer, engineVars, ledgerVars, addedVars>>

\* one call table.get_rate(date)
GetRateCall(date) ==
    /\ table_pc = "ready"
    /\ asked' = date
    /\ answer' = GetRate(table_rates[1], date)
    /\ UNCHANGED <<table_pc, table_err, table_start, table_end, table_rates,
                   requests_sent, engineVars, ledgerVars, addedVars>>

NoAnswer == [ok |-> FALSE, error |-> "none", rate |-> 0]

NoTable ==
    /\ table_pc = "new"
    /\ table_err = "none"
    /\ table_start = 0
    /\ table_end = 0
    /\ table_rates = <<>>
    /\ requests_sent = 0
    /\ asked = 0
    /\ answer = NoAnswer

NoShow == rates_map = <<>>

NoConverter ==
    /\ td_transactions = <<>>
    /\ td_output = <<>>

NoParallel ==
    /\ engines = <<>>
    /\ shared = <<>>

NoAdded == NoShow /\ NoConverter /\ NoParallel

EngineIdle ==
    /\ ticker = "A"
    /\ share_balance = 0
    /\ total_acb = 0
    /\ transactions = <<>>
    /\ exchange_rates = RateTables
    /\ i = 1
    /\ pc = "ledger"
    /\ err = "none"
    /\ before = [share_balance |-> 0, total_acb |-> 0]

NoLedger ==
    /\ heap = <<>>
    /\ ledger = EmptyLedger
    /\ ledgerBy = NoFilter
    /\ filtered = <<>>
    /\ lastCall = NoFilter
    /\ heapBefore = <<>>

Init ==
    /\ ticker = "A"
    /\ share_balance = 0
    /\ total_acb = 0
    /\ transactions \in SeqsUpTo(ArithTxns, MaxLen) \cup WindowLists \cup GambitLists
                          \cup UnsortedLists
    /\ exchange_rates = RateTables
    /\ i = 1
    /\ pc = "add"
    /\ err = "none"
    /\ before = [share_balance |-> 0, total_acb |-> 0]
    /\ NoLedger
    /\ NoTable
    /\ NoAdded

Next == Apply \/ CheckSuperficial

Spec == Init /\ [][Next]_vars

InitLedger ==
    /\ EngineIdle
    /\ \E raw \in {<<>>} \cup SeqsUpTo(LedgerTxns, MaxLedgerLen) :
          LET c == Construct(raw, [k \in 1..Len(raw) |-> k])
          IN  /\ heap = c.heap
              /\ ledger = c.ledger
              /\ heapBefore = c.heap
    /\ ledgerBy = NoFilter
    /\ filtered = <<>>
    /\ lastCall = NoFilter
    /\ NoTable
    /\ NoAdded

NextLedger ==
    \/ \E f \in FilterArgs : FilterBy(f)
    \/ Continue
    \/ Discard
    \/ \E t \in AddedTxns : LedgerAdd(t)

SpecLedger == InitLedger /\ [][NextLedger]_vars

InitRates ==
    /\ EngineIdle
    /\ NoLedger
    /\ NoTable
    /\ NoAdded

NextRates ==
    \/ \E start, end \in 1..MaxDay : NewExchangeRate(start, end)
    \/ \E date \in 1..(MaxDay + 1) : GetRateCall(date)

SpecRates == InitRates /\ [][NextRates]_vars

\* The records a ledger is constructed from: generic journals of either
\* currency with no text, a text without a marker and the two marker texts,
\* journals of another quantity, journals with an explicit direction, trades.
JournalTxns ==
    {NewLedgerTransaction(10, "A", "JOURNAL", 1, c, x, FALSE) :
        c \in Currencies, x \in {"", "memo", "Transfer In", "Transfer Out"}}
    \cup {NewLedgerTransaction(10, "A", "JOURNAL", 2, c, "", FALSE) : c \in Currencies}
    \cup {NewLedgerTransaction(10, "A", "JOURNAL_IN", 1, "USD", "", FALSE),
          NewLedgerTransaction(10, "A", "JOURNAL_OUT", 1, "USD", "", FALSE),
          NewLedgerTransaction(10, "A", "JOURNAL_IN", 1, "CAD", "Transfer Out", FALSE),
          NewLedgerTransaction(10, "A", "BUY", 1, "CAD", "", FALSE),
          NewLedgerTransaction(10, "A", "SELL", 1, "USD", "Transfer In", FALSE)}

\* Transactions(transactions) over the objects of heap
NewLedger ==
    /\ pc = "ledger"
    /\ ledger = EmptyLedger
    /\ heap # <<>>
    /\ LET c == Construct(heap, [k \in 1..Len(heap) |-> k])
       IN  /\ heap' = c.heap
           /\ ledger' = c.ledger
    /\ heapBefore' = heap
    /\ UNCHANGED <<ledgerBy, filtered, lastCall, engineVars, rateVars, addedVars>>

\* the ledger is built again over the transactions it holds,
\* Transactions(ledger.transactions): reconciliation runs a second time
Rebuild ==
    /\ pc = "ledger"
    /\ ledger # EmptyLedger
    /\ filtered = <<>>
    /\ LET c == Construct(heap, ledger.transactions)
       IN  /\ heap' = c.heap
           /\ filtered' = <<c.ledger>>
    /\ heapBefore' = heap
    /\ UNCHANGED <<ledger, ledgerBy, lastCall, engineVars, rateVars, addedVars>>

InitJournal ==
    /\ EngineIdle
    /\ heap \in SeqsUpTo(JournalTxns, MaxJournals)
    /\ heapBefore = heap
    /\ ledger = EmptyLedger
    /\ ledgerBy = NoFilter
    /\ filtered = <<>>
    /\ lastCall = NoFilter
    /\ NoTable
    /\ NoAdded

NextJournal == NewLedger \/ Rebuild

SpecJournal == InitJournal /\ [][NextJournal]_vars

----------------
(* Vocabulary of the properties *)

N == Len(transactions)

\* _add_transaction has stamped transaction k
Applied(k) == transactions[k].stamped

\* the loop has moved past transaction k: applied and tested for superficial loss
Processed(k) == transactions[k].stamped /\ k < i

NumApplied == Cardinality({k \in 1..N : Applied(k)})

\* the transaction _add_transaction applied last, 0 if none has been
LastApplied ==
    IF pc = "superficial" THEN i
    ELSE IF pc = "failed" THEN 0
    ELSE i - 1

\* the commission in CAD, from the record's own fields
CommissionInCad(t) == t.commission * t.exchange_rate * Scale

SignedQty(t) ==
    IF t.action \in {"BUY", "JOURNAL_IN"} THEN t.qty
    ELSE IF t.action \in {"SELL", "JOURNAL_OUT"} THEN -t.qty
    ELSE 0

RECURSIVE SumOver(_, _)
SumOver(S, f) ==
    IF S = {} THEN 0
    ELSE LET x == CHOOSE y \in S : TRUE IN f[x] + SumOver(S \ {x}, f)

\* the transactions of the engine's ticker dated within 30 days of transaction k
InWindow(k) ==
    {j \in 1..N : /\ transactions[j].ticker = ticker
                  /\ Abs(transactions[j].date - transactions[k].date) <= 30}

\* the balance stamped on k plus the signed quantities of the in-window
\* transactions that follow it in the list
EndOfWindowBalance(k) ==
    transactions[k].share_balance
    + SumOver({j \in InWindow(k) : j > k}, [j \in 1..N |-> SignedQty(transactions[j])])

----------------------------------------------------------------------------
\* C1: the running share_balance is >= 0 after every applied action, any
\* action that would make it negative fails the processing, and no
\* transaction is stamped with a negative share_balance.
NeverNegativeBalance ==
    /\ pc # "failed" => share_balance >= 0
    /\ \A k \in 1..N : Applied(k) => transactions[k].share_balance >= 0

\* C2: every applied JOURNAL_IN or JOURNAL_OUT transaction is stamped with
\* capital_gain, acb and proceeds all zero.
JournalStampsZero ==
    \A k \in 1..N :
        (Applied(k) /\ transactions[k].action \in {"JOURNAL_IN", "JOURNAL_OUT"})
        => /\ transactions[k].capital_gain = 0
           /\ transactions[k].acb = 0
           /\ transactions[k].proceeds = 0

\* a journal with a price and a commission applied on an engine holding cost
JournalStampsZeroWitness ==
    \E k \in 1..N :
        /\ Applied(k)
        /\ transactions[k].action \in {"JOURNAL_IN", "JOURNAL_OUT"}
        /\ transactions[k].price > 0 /\ transactions[k].commission > 0
        /\ transactions[k].exchange_rate > 1
        /\ transactions[k].cumulative_cost > 0

\* C3: applying a JOURNAL_IN / JOURNAL_OUT leaves total_acb unchanged, moves
\* share_balance by exactly +qty / -qty and stamps cumulative_cost with the
\* unchanged total_acb; the superficial-loss step that follows changes neither.
JournalFrame ==
    (LastApplied > 0 /\ transactions[LastApplied].action \in {"JOURNAL_IN", "JOURNAL_OUT"})
    => LET t == transactions[LastApplied]
       IN  /\ total_acb = before.total_acb
           /\ share_balance = before.share_balance
                 + (IF t.action = "JOURNAL_IN" THEN t.qty ELSE -t.qty)
           /\ t.cumulative_cost = before.total_acb
           /\ t.share_balance = share_balance

\* a JOURNAL_OUT and a JOURNAL_IN both applied while the engine holds cost
JournalFrameWitness ==
    /\ \E k \in 1..N : /\ Processed(k)
                       /\ transactions[k].action = "JOURNAL_OUT"
                       /\ transactions[k].cumulative_cost > 0
    /\ \E k \in 1..N : /\ Processed(k)
                       /\ transactions[k].action = "JOURNAL_IN"
                       /\ transactions[k].cumulative_cost > 0

\* C4: a SELL applied at share_balance > 0 has acb = (total_acb /
\* share_balance) * qty, proceeds = qty * price * exchange_rate and
\* capital_gain = proceeds - commission in CAD - acb; total_acb goes down by
\* acb and share_balance by qty; so every stamped SELL has
\* capital_gain = proceeds - acb - outlays.
SellArithmetic ==
    /\ (pc \in {"superficial", "failed"} /\ err # "RateNotFound" /\ err # "ValueError"
           /\ transactions[i].action = "SELL" /\ before.share_balance > 0)
       => LET t == transactions[i]
              acb == DecDiv(before.total_acb, before.share_balance) * t.qty
              proceeds == t.qty * t.price * t.exchange_rate * Scale
          IN  /\ total_acb = before.total_acb - acb
              /\ share_balance = before.share_balance - t.qty
              /\ pc = "superficial"
                 => /\ t.stamped
                    /\ t.acb = acb
                    /\ t.proceeds = proceeds
                    /\ t.capital_gain = proceeds - CommissionInCad(t) - acb
    /\ \A k \in 1..N :
           (Applied(k) /\ transactions[k].action = "SELL")
           => transactions[k].capital_gain
                 = transactions[k].proceeds - transactions[k].acb
                   - CommissionInCad(transactions[k])

\* a SELL with a commission in a foreign currency whose per-share cost was
\* rounded by the division
SellArithmeticWitness ==
    \E k \in 1..N :
        /\ Applied(k)
        /\ transactions[k].action = "SELL"
        /\ transactions[k].commission > 0 /\ transactions[k].exchange_rate > 1
        /\ transactions[k].acb % Scale # 0

RECURSIVE SumQty(_, _)
SumQty(txs, n) == IF n = 0 THEN 0 ELSE txs[n].qty + SumQty(txs, n - 1)

RECURSIVE SumCost(_, _)
SumCost(txs, n) ==
    IF n = 0 THEN 0
    ELSE (txs[n].qty * txs[n].price * txs[n].exchange_rate
            + txs[n].commission * txs[n].exchange_rate) * Scale
         + SumCost(txs, n - 1)

\* C5: while only BUYs have been applied, share_balance is the sum of their
\* quantities, total_acb the sum of qty * price * rate + commission * rate,
\* and each BUY is stamped with capital_gain 0.
BuysOnlyAverageCost ==
    (pc # "failed" /\ \A k \in 1..NumApplied : transactions[k].action = "BUY")
    => /\ share_balance = SumQty(transactions, NumApplied)
       /\ total_acb = SumCost(transactions, NumApplied)
       /\ \A k \in 1..NumApplied : transactions[k].capital_gain = 0

\* three BUYs, of different prices, one of them with a commission in USD
BuysOnlyAverageCostWitness ==
    /\ pc = "done" /\ N = 3
    /\ \A k \in 1..N : transactions[k].action = "BUY"
    /\ \E k \in 1..N : transactions[k].commission > 0 /\ transactions[k].exchange_rate > 1
    /\ \E j, k \in 1..N : transactions[j].price # transactions[k].price

\* the SELL at k realizes a loss and a BUY of the engine's ticker later in the
\* list, within 30 days, leaves a positive balance at the end of the window
LossWithReplacement(k) ==
    /\ transactions[k].action = "SELL"
    /\ transactions[k].ticker = ticker
    /\ transactions[k].capital_gain < 0
    /\ \E j \in InWindow(k) : j > k /\ transactions[j].action = "BUY"
    /\ EndOfWindowBalance(k) > 0

\* C6: a SELL at a loss followed in the list, within 30 days, by a BUY of the
\* same ticker that leaves a positive balance at the end of the window is
\* marked superficial_loss and total_acb is raised by exactly the magnitude of
\* the loss before the next transaction is applied, so that the
\* cumulative_cost stamped on a following BUY includes the denied loss.
SuperficialLossDeferred ==
    \A k \in 1..N :
        (Processed(k) /\ LossWithReplacement(k))
        => LET t == transactions[k]
           IN  /\ t.superficial_loss
               /\ (LastApplied = k)
                  => total_acb = t.cumulative_cost + Abs(t.capital_gain)
               /\ (k < N /\ Applied(k + 1) /\ transactions[k + 1].action = "BUY")
                  => transactions[k + 1].cumulative_cost
                        = t.cumulative_cost + Abs(t.capital_gain)
                          + transactions[k + 1].acb

\* a superficial SELL whose following BUY has been stamped
SuperficialLossDeferredWitness ==
    \E k \in 1..N :
        /\ k < N
        /\ Processed(k) /\ LossWithReplacement(k)
        /\ Applied(k + 1) /\ transactions[k + 1].action = "BUY"

IsGambit ==
    /\ N = 4
    /\ transactions[1].action = "BUY"
    /\ transactions[2].action = "JOURNAL_OUT"
    /\ transactions[3].action = "JOURNAL_IN"
    /\ transactions[4].action = "SELL"
    /\ \A k \in 1..4 : /\ transactions[k].qty = transactions[1].qty
                       /\ transactions[k].ticker = ticker

\* what C8 says of the journals and of the SELL's gain
GambitJournals ==
    /\ transactions[2].cumulative_cost = transactions[1].cumulative_cost
    /\ transactions[3].cumulative_cost = transactions[1].cumulative_cost
    /\ transactions[1].cumulative_cost = transactions[1].acb
    /\ transactions[2].share_balance = 0
    /\ transactions[3].share_balance = transactions[1].qty
    /\ \A k \in 1..3 : transactions[k].capital_gain = 0
    /\ transactions[4].capital_gain
          = transactions[4].proceeds - transactions[4].acb
            - CommissionInCad(transactions[4])
    /\ share_balance = 0

\* C8 as stated: through BUY q, JOURNAL_OUT q, JOURNAL_IN q, SELL q the ACB
\* of the BUY is carried unchanged through both journals, the SELL's acb is
\* the BUY's full cost, its capital_gain is proceeds - acb - commission and
\* the only non-zero one, and the engine ends at share_balance 0, total_acb 0.
GambitExact ==
    (IsGambit /\ pc = "done")
    => /\ GambitJournals
       /\ transactions[4].acb = transactions[1].acb
       /\ total_acb = 0

\* C8, amended: as GambitExact, but the SELL's acb is (cost / q) * q with the
\* quotient rounded as Decimal rounds it, and the engine ends at total_acb =
\* cost - that acb; both are the full cost and 0 when cost / q is exact.
GambitCarried ==
    (IsGambit /\ pc = "done")
    => LET cost == transactions[1].acb
           q == transactions[1].qty
       IN  /\ GambitJournals
           /\ transactions[4].acb = DecDiv(cost, q) * q
           /\ total_acb = cost - transactions[4].acb
           /\ (cost % q = 0) => (transactions[4].acb = cost /\ total_acb = 0)

\* a gambit whose per-share cost is rounded, and whose SELL makes a gain
GambitCarriedWitness ==
    /\ IsGambit /\ pc = "done"
    /\ transactions[1].acb % transactions[1].qty # 0
    /\ transactions[4].capital_gain > 0

----------------------------------------------------------------------------
\* the objects the receiver of filter_by holds
Held == {ledger.transactions[k] : k \in 1..Len(ledger.transactions)}

\* C9: filter_by never mutates the original ledger: after a call, every
\* transaction the receiver holds has every field, its action included, as it
\* was before the call (the receiver's list itself is not assigned by the call).
FilterByLeavesOriginal ==
    (filtered # <<>>) => \A x \in Held : heap[x] = heapBefore[x]

\* C10: filtering by a year is idempotent: when ledger is the result of
\* filter_by(year=Y), ledger.filter_by(year=Y) holds the same transactions in
\* the same order, with the actions they had in ledger.
FilterByYearIdempotent ==
    (filtered # <<>> /\ ledgerBy.year # 0 /\ lastCall = ledgerBy)
    => /\ filtered[1].transactions = ledger.transactions
       /\ \A x \in Held : heap[x].action = heapBefore[x].action

\* filter_by(year=Y) called again on its own result, which holds two
\* transactions or more, a journal among them
FilterByYearIdempotentWitness ==
    /\ filtered # <<>> /\ ledgerBy.year # 0 /\ lastCall = ledgerBy
    /\ Len(ledger.transactions) >= 2
    /\ Len(ledger.transactions) < Len(heap)
    /\ \E x \in Held : IsJournal(heap[x].action)

\* the transaction t has what the arguments f of filter_by ask for; None and
\* the falsy values (no ticker, year 0, '') ask for nothing
Satisfies(t, f) ==
    /\ f.tickers = {} \/ t.ticker \in f.tickers
    /\ f.year = 0 \/ Year(t.date) = f.year
    /\ f.max_year = 0 \/ Year(t.date) <= f.max_year
    /\ f.action = "" \/ t.action = f.action
    /\ \/ f.superficial_loss = "None"
       \/ f.superficial_loss = "True" /\ t.superficial_loss
       \/ f.superficial_loss = "False" /\ ~ t.superficial_loss

Ledgers == {ledger} \cup {filtered[k] : k \in 1..Len(filtered)}

\* the years of the transactions the ledger L holds
YearsHeld(L) == {Year(heap[L.transactions[k]].date) : k \in 1..Len(L.transactions)}

\* C12: after construction and after any add_transaction calls, the ledger's
\* length is the sum of its per-ticker counts, each ticker's count is the
\* number of held transactions with that ticker (no count for a ticker not
\* held), and year_min / year_max are the smallest / largest year held.
LedgerIndexExact ==
    \A L \in Ledgers :
        /\ Len(L.transactions) = SumOver(DOMAIN L.tickers, L.tickers)
        /\ \A k \in Tickers :
              LET held == {j \in 1..Len(L.transactions) :
                              heap[L.transactions[j]].ticker = k}
              IN  IF held = {} THEN k \notin DOMAIN L.tickers
                  ELSE k \in DOMAIN L.tickers /\ L.tickers[k] = Cardinality(held)
        /\ DOMAIN L.tickers \subseteq Tickers
        /\ Len(L.transactions) > 0
           => /\ L.year_min \in YearsHeld(L)
              /\ L.year_max \in YearsHeld(L)
              /\ \A y \in YearsHeld(L) : L.year_min <= y /\ y <= L.year_max

\* a ledger of two tickers and two years whose third transaction, a lone
\* generic journal, was added by add_transaction after construction
LedgerIndexExactWitness ==
    /\ Len(ledger.transactions) = 3
    /\ heap[ledger.transactions[3]].action = "JOURNAL"
    /\ heap[ledger.transactions[3]].original_text = ""
    /\ \A j \in 1..2 : ~ IsJournal(heap[ledger.transactions[j]].action)
    /\ ledger.year_min < ledger.year_max
    /\ \E k \in DOMAIN ledger.tickers : ledger.tickers[k] = 2

----------------------------------------------------------------------------
\* the observation dates of the table
ObservationDates == IF table_rates = <<>> THEN {} ELSE DOMAIN table_rates[1]

\* get_rate(asked) returned the rate stored for the observation date d
AnswerIsRateOf(d) == answer.ok /\ answer.rate = table_rates[1][d]

\* what C13 says of a call get_rate(asked)
ClosestPrecedingAnswer ==
    /\ asked \in ObservationDates => AnswerIsRateOf(asked)
    /\ (asked \notin ObservationDates /\ \E d \in ObservationDates : d < asked)
       => \E d \in ObservationDates :
             /\ d < asked
             /\ \A e \in ObservationDates : e < asked => e <= d
             /\ AnswerIsRateOf(d)
    /\ answer.ok => \E d \in ObservationDates : d <= asked /\ AnswerIsRateOf(d)

RateNotFoundWhenNone ==
    (asked # 0 /\ (asked <= MinDate \/ ~ \E d \in ObservationDates : d <= asked))
    => (~ answer.ok /\ answer.error = "RateNotFound")

\* C15: constructing a table with end_date < start_date, or with start_date
\* before min_date, fails with a configuration error, no request having been
\* sent to the provider and no mapping built.
BadRangeFailsFirst ==
    (table_pc # "new" /\ (table_end < table_start \/ table_start < MinDate))
    => /\ table_pc = "failed"
       /\ table_err \in {"EndBeforeStart", "StartBeforeMinDate"}
       /\ requests_sent = 0
       /\ table_rates = <<>>

\* a constructor failed for a well-ordered range that starts the day before
\* min_date
BadRangeFailsFirstWitness ==
    /\ table_pc = "failed"
    /\ table_start = MinDate - 1
    /\ table_end > table_start

----------------------------------------------------------------------------
\* the constructor has run over the objects of heap, once; heapBefore holds
\* them as they were handed to it
Constructed == ledger.transactions # <<>> /\ filtered = <<>>

\* the journals grouped with the object x: same date and quantity
JournalGroup(x) ==
    {y \in DOMAIN heapBefore : /\ IsJournal(heapBefore[y].action)
                               /\ heapBefore[y].date = heapBefore[x].date
                               /\ heapBefore[y].qty = heapBefore[x].qty}

TextSaysOut(x) == HasTransferOut(heapBefore[x].original_text)
TextSaysIn(x) == HasTransferIn(heapBefore[x].original_text) /\ ~ TextSaysOut(x)

\* C16: after construction every generic JOURNAL without 'Transfer In' /
\* 'Transfer Out' text is JOURNAL_IN if its currency is CAD and JOURNAL_OUT
\* otherwise, both members of a 2-element group included, of the same
\* currency or not.  Stated here of the records that retain no text at all.
CurrencyHeuristicAlways ==
    Constructed
    => \A x \in DOMAIN heap :
          (heapBefore[x].action = "JOURNAL" /\ heapBefore[x].original_text = "")
          => heap[x].action = IF heapBefore[x].currency = "CAD"
                              THEN "JOURNAL_IN" ELSE "JOURNAL_OUT"

\* C17: in a (date, qty) group of size other than 2 no generic JOURNAL stays
\* generic: after reconciliation it is JOURNAL_IN or JOURNAL_OUT, also when
\* its text holds neither marker.
NonPairsResolved ==
    Constructed
    => \A x \in DOMAIN heap :
          (heapBefore[x].action = "JOURNAL" /\ Cardinality(JournalGroup(x)) # 2)
          => heap[x].action \in {"JOURNAL_IN", "JOURNAL_OUT"}

\* C18: a generic JOURNAL whose text holds 'Transfer Out' becomes JOURNAL_OUT
\* and one whose text holds 'Transfer In' becomes JOURNAL_IN, whatever its
\* currency and the size of its group; a BUY, SELL, JOURNAL_IN or JOURNAL_OUT
\* keeps its action.
TextBeforeCurrency ==
    Constructed
    => \A x \in DOMAIN heap :
          /\ (heapBefore[x].action = "JOURNAL" /\ TextSaysOut(x))
             => heap[x].action = "JOURNAL_OUT"
          /\ (heapBefore[x].action = "JOURNAL" /\ TextSaysIn(x))
             => heap[x].action = "JOURNAL_IN"
          /\ heapBefore[x].action # "JOURNAL" => heap[x].action = heapBefore[x].action

----------------------------------------------------------------------------
\* C19: once a transaction has been fully processed (applied and tested for
\* superficial loss), its stamped share_balance and cumulative_cost are the
\* engine's share_balance and total_acb, the state the next transaction starts
\* from; also for a transaction marked as a superficial loss.
StampsAreEngineState ==
    \A k \in 1..N :
        (Processed(k) /\ LastApplied = k)
        => /\ transactions[k].share_balance = share_balance
           /\ transactions[k].cumulative_cost = total_acb

\* the signed quantities of the first k transactions of the list
RECURSIVE SignedPrefix(_, _)
SignedPrefix(txs, n) ==
    IF n = 0 THEN 0 ELSE SignedQty(txs[n]) + SignedPrefix(txs, n - 1)

PrefixQty(k) == SignedPrefix(transactions, k)

\* _add_transaction has been called on transaction k
Attempted(k) == k < i \/ (k = i /\ pc # "add" /\ err # "RateNotFound")

\* C20: add_transactions works through the list in the order given, whatever
\* the dates: the transactions applied are a prefix of the list and each is
\* stamped with the balance of the list up to it; a BUY or SELL that takes
\* that balance below zero fails with the negative-balance error even when a
\* BUY dated earlier follows in the list, and nothing else does, so the same
\* transactions in date order go through.
ListOrderProcessing ==
    /\ \A k \in 1..N :
          Applied(k) => /\ \A j \in 1..k : Applied(j)
                        /\ transactions[k].share_balance = PrefixQty(k)
    /\ \A k \in 1..N :
          (Attempted(k) /\ transactions[k].action \in {"BUY", "SELL"} /\ PrefixQty(k) < 0)
          => (pc = "failed" /\ err = "NegativeBalance" /\ i = k /\ ~ Applied(k))
    /\ (pc = "failed" /\ err = "NegativeBalance")
       => (transactions[i].action \in {"BUY", "SELL"} /\ PrefixQty(i) < 0)
    /\ (/\ N = 2
        /\ transactions[1].action = "BUY" /\ transactions[2].action = "SELL"
        /\ transactions[1].date <= transactions[2].date
        /\ transactions[2].qty <= transactions[1].qty
        /\ \A k \in 1..N : transactions[k].ticker = ticker)
       => (pc # "failed" /\ \A k \in 1..N : k < i => Applied(k))

\* a SELL failed for want of shares with the BUY that funds it, dated the
\* day before, next in the list
ListOrderProcessingWitness ==
    /\ pc = "failed" /\ err = "NegativeBalance"
    /\ N = 2 /\ i = 1
    /\ transactions[1].action = "SELL"
    /\ transactions[2].action = "BUY"
    /\ transactions[2].date < transactions[1].date
    /\ transactions[2].qty >= transactions[1].qty
    /\ transactions[2].ticker = transactions[1].ticker

\* no computed field of transaction k has been written
Unstamped(k) ==
    /\ ~ transactions[k].stamped
    /\ transactions[k].proceeds = 0
    /\ transactions[k].capital_gain = 0
    /\ transactions[k].acb = 0
    /\ transactions[k].share_balance = 0
    /\ transactions[k].cumulative_cost = 0
    /\ ~ transactions[k].superficial_loss

\* C22: when applying transaction t raises the negative-balance error the
\* computation stops there: t is left without stamped proceeds, capital_gain,
\* acb, share_balance and cumulative_cost, no transaction after t is processed
\* or stamped (nor given a rate), and the error stays raised: add_transactions
\* never goes on past it.
NegativeBalanceAborts ==
    /\ err = "NegativeBalance" => pc = "failed"
    /\ (pc = "failed" /\ err = "NegativeBalance")
       => /\ Unstamped(i)
          /\ \A k \in (i + 1)..N : Unstamped(k) /\ transactions[k].exchange_rate = 0
          /\ \A k \in 1..(i - 1) : Applied(k)

\* the error raised on a SELL in the middle of a list, after a stamped
\* transaction and before another one
NegativeBalanceAbortsWitness ==
    /\ pc = "failed" /\ err = "NegativeBalance"
    /\ 1 < i /\ i < N
    /\ transactions[i].action = "SELL"
    /\ transactions[i].price > 0
    /\ before.total_acb > 0

\* _add_transaction has just applied the SELL at i, on an engine that held
\* shares; total_acb is as the SELL left it, before any reversal
SellJustApplied ==
    /\ pc = "superficial"
    /\ transactions[i].action = "SELL"
    /\ before.share_balance > 0

AppliedWhateverTicker ==
    /\ (pc = "superficial")
       => LET t == transactions[i]
          IN  /\ t.stamped
              /\ share_balance = before.share_balance + SignedQty(t)
              /\ t.action = "BUY" => total_acb = before.total_acb + t.acb
              /\ t.action = "SELL" => total_acb = before.total_acb - t.acb
              /\ IsJournal(t.action) => total_acb = before.total_acb
    /\ \A k \in 1..N :
          transactions[k].superficial_loss
          => /\ transactions[k].ticker = ticker
             /\ \E j \in InWindow(k) : transactions[j].action = "BUY"
             /\ EndOfWindowBalance(k) > 0

\* a SELL of another ticker has taken shares and cost off the engine
AppliedWhateverTickerWitness ==
    /\ pc = "superficial"
    /\ transactions[i].ticker # ticker
    /\ transactions[i].action = "SELL"
    /\ share_balance < before.share_balance
    /\ total_acb < before.total_acb

----------------------------------------------------------------------------
----------------------------------------------------------------------------
\* C27: journal reconciliation is idempotent: when a ledger is rebuilt over
\* the transactions it holds, the second run of match_journal_transactions
\* changes no transaction's action.
ReconciliationIdempotent ==
    (ledger # EmptyLedger /\ filtered # <<>>)
    => /\ \A x \in DOMAIN heap : heap[x].action = heapBefore[x].action
       /\ filtered[1].transactions = ledger.transactions

\* a rebuilt ledger that holds a group of two generic journals of the same
\* currency, one of them left generic by the first run, and a group of one
ReconciliationIdempotentWitness ==
    /\ ledger # EmptyLedger /\ filtered # <<>>
    /\ Len(heap) = 3
    /\ \E x, y \in DOMAIN heap :
          /\ x # y
          /\ JournalGroup(x) = {x, y}
          /\ heapBefore[x].action = "JOURNAL_OUT"
          /\ heapBefore[y].action = "JOURNAL"
          /\ heapBefore[y].original_text = ""

----------------------------------------------------------------------------
(* _get_map_of_currencies_to_exchange_rates of the show command *)

\* the order sorted(..., key=lambda t: t.currency) puts the currencies in
CurrencyOrder == <<"CAD", "USD">>

\* [list(g) for _, g in groupby(sorted(transactions, key=currency), currency)]:
\* the sort is stable, so each group holds the transactions of one currency
\* in the order of the ledger
CurrencyGroups(h, L) ==
    LET all == [k \in 1..Len(L.transactions) |-> h[L.transactions[k]]]
        group(c) == SelectSeq(all, LAMBDA t : t.currency = c)
        groups == [k \in 1..Len(CurrencyOrder) |-> group(CurrencyOrder[k])]
    IN  SelectSeq(groups, LAMBDA g : g # <<>>)

\* what the provider can answer one constructor
Outcomes ==
    {[kind |-> k, observations |-> <<>>] :
        k \in {"observations", "RequestException", "KeyError"}}

\* the loop over the groups: the range of each ExchangeRate built, or the
\* exception of the first constructor that raises
RECURSIVE BuildExchangeRates(_, _, _)
BuildExchangeRates(currency_groups, answers, built) ==
    IF currency_groups = <<>> THEN [err |-> "none", ranges |-> built]
    ELSE LET currency_group == Head(currency_groups)
             currency == currency_group[1].currency
             min_date == currency_group[1].date
             max_date == currency_group[Len(currency_group)].date
             r == ExchangeRateInit(min_date, max_date, answers[currency])
         IN  IF r.err # "none" THEN [err |-> r.err, ranges |-> <<>>]
             ELSE BuildExchangeRates(Tail(currency_groups), answers,
                      [c \in DOMAIN built \cup {currency} |->
                          IF c = currency
                          THEN [start_date |-> min_date, end_date |-> max_date]
                          ELSE built[c]])

GetMapOfCurrenciesToExchangeRates ==
    /\ rates_map = <<>>
    /\ \E answers \in [Currencies -> Outcomes] :
          rates_map' = <<BuildExchangeRates(CurrencyGroups(heap, ledger), answers, <<>>)>>
    /\ UNCHANGED <<engineVars, ledgerVars, rateVars, converterVars, parallelVars>>

\* the transactions shown: two currencies, three days
ShowDays == {MinDate + 2, MinDate + 5, MinDate + 8}

ShowTxns ==
    {NewLedgerTransaction(d, "A", "BUY", 1, c, "", FALSE) : d \in ShowDays, c \in Currencies}

InitShow ==
    /\ EngineIdle
    /\ \E raw \in SeqsUpTo(ShowTxns, MaxLedgerLen) :
          LET c == Construct(raw, [k \in 1..Len(raw) |-> k])
          IN  /\ heap = c.heap
              /\ ledger = c.ledger
              /\ heapBefore = c.heap
    /\ ledgerBy = NoFilter
    /\ filtered = <<>>
    /\ lastCall = NoFilter
    /\ NoTable
    /\ NoAdded

NextShow == GetMapOfCurrenciesToExchangeRates

SpecShow == InitShow /\ [][NextShow]_vars

\* the dates of the ledger's transactions in the currency c
DatesIn(c) == {heap[x].date : x \in {y \in DOMAIN heap : heap[y].currency = c}}

Earliest(S) == CHOOSE d \in S : \A e \in S : d <= e
Latest(S) == CHOOSE d \in S : \A e \in S : d >= e

\* C30: _get_map_of_currencies_to_exchange_rates builds one ExchangeRate per
\* currency of the ledger, from the earliest to the latest date of the
\* currency's transactions, whatever the order of the ledger: no constructor
\* is handed an end before its start, and when none fails the map has each
\* currency's range [earliest, latest].
RangesCoverEveryDate ==
    rates_map # <<>>
    => /\ rates_map[1].err # "EndBeforeStart"
       /\ rates_map[1].err = "none"
          => /\ DOMAIN rates_map[1].ranges = {c \in Currencies : DatesIn(c) # {}}
             /\ \A c \in DOMAIN rates_map[1].ranges :
                   /\ rates_map[1].ranges[c].start_date = Earliest(DatesIn(c))
                   /\ rates_map[1].ranges[c].end_date = Latest(DatesIn(c))

----------------------------------------------------------------------------
(* The TD statements converter: clean_transactions *)

\* the longest list of extracted transactions handed to clean_transactions
MaxExtracted == 3

\* an extracted transaction: the dict parse_transaction_line and
\* extract_confirmation_transactions build, tagged with its source file
NewTdTransaction(date, tkr, action, quantity, price, commission, currency, source, text) ==
    [date |-> date, ticker |-> tkr, action |-> action, quantity |-> quantity,
     price |-> price, commission |-> commission, currency |-> currency,
     source |-> source, original_text |-> text]

\* 'Confirmation' in tx.get('source', '')
IsConfirmation(tx) == tx.source = "Confirmation.pdf"

\* 'Transfer Out' in original_text
TextHasTransferOut(text) == text \in {"Transfer Out", "Transfer Out / Transfer In"}
\* 'Transfer In' in original_text
TextHasTransferIn(text) == text \in {"Transfer In", "Transfer Out / Transfer In"}

IsDuplicateTransaction(transaction1, transaction2) ==
    /\ transaction1.ticker = transaction2.ticker
    /\ transaction1.quantity = transaction2.quantity
    /\ \/ transaction1.action = transaction2.action
       \/ transaction1.action = "JOURNAL" /\ transaction2.action \in {"BUY", "SELL"}
       \/ transaction2.action = "JOURNAL" /\ transaction1.action \in {"BUY", "SELL"}

\* the confirmations, then the statement transactions no confirmation matches
DeduplicateTransactions(txs) ==
    IF Len(txs) <= 1 THEN txs
    ELSE LET confirmation_transactions == SelectSeq(txs, IsConfirmation)
             statement_transactions == SelectSeq(txs, LAMBDA tx : ~ IsConfirmation(tx))
             used(stmt_tx) == \E k \in DOMAIN confirmation_transactions :
                                 IsDuplicateTransaction(confirmation_transactions[k], stmt_tx)
         IN  confirmation_transactions
             \o SelectSeq(statement_transactions, LAMBDA tx : ~ used(tx))

\* NORBERTS_TICKER_PAIRS
NorbertsTickerPairs == [k \in {"DLR.U", "DLR"} |-> "DLR"]

IsNorbertsGambitTicker(tkr) == tkr \in DOMAIN NorbertsTickerPairs \cup {"DLR"}

\* the pairs are looked through in the order of the dict: "DLR.U" first
GetNorbertsGambitPair(tkr, currency) ==
    IF tkr \in DOMAIN NorbertsTickerPairs /\ currency = "CAD" THEN NorbertsTickerPairs[tkr]
    ELSE IF tkr = "DLR" /\ currency = "USD" THEN "DLR.U"
    ELSE tkr

\* The output dict. The date is written by strftime('%Y-%m-%d'), which orders
\* as the date does; qty, price and commission are floats of the Decimals,
\* exact for the values of the model; the description is the f-string, kept
\* as its pieces. include_exchange_rate is left at its default, False.
ConvertTransactionToOutput(tx) ==
    LET display_ticker == IF IsNorbertsGambitTicker(tx.ticker)
                          THEN GetNorbertsGambitPair(tx.ticker, tx.currency)
                          ELSE tx.ticker
        journal_direction ==
            IF tx.action = "JOURNAL_IN" THEN "IN"
            ELSE IF tx.action = "JOURNAL_OUT" THEN "OUT"
            ELSE IF TextHasTransferOut(tx.original_text) THEN "OUT"
            ELSE "IN"
        trade == tx.action \in {"BUY", "SELL"}
    IN  [date |-> tx.date,
         ticker |-> tx.ticker,
         action |-> IF tx.action = "JOURNAL" THEN "JOURNAL_" \o journal_direction
                    ELSE tx.action,
         qty |-> tx.quantity,
         price |-> IF trade THEN tx.price ELSE 0,
         commission |-> tx.commission,
         currency |-> tx.currency,
         description |-> IF trade THEN <<"TD Trade - ", display_ticker>>
                         ELSE <<"TD Journal (", journal_direction, ") - ", display_ticker>>]

\* the order of the strings the tickers of the model are
TickerRank(tkr) == CASE tkr = "DLR" -> 1 [] tkr = "DLR.U" -> 2 [] OTHER -> 3

\* sorted(ticker_date_groups.items()): by ticker, then by date
KeyBefore(k1, k2) ==
    \/ TickerRank(k1[1]) < TickerRank(k2[1])
    \/ k1[1] = k2[1] /\ k1[2] <= k2[2]

\* one (ticker, date) group, in the order it is emitted in
OrderedGroup(txs) ==
    LET buys == SelectSeq(txs, LAMBDA tx : tx.action = "BUY")
        journal_outs == SelectSeq(txs, LAMBDA tx :
                            \/ tx.action = "JOURNAL_OUT"
                            \/ tx.action = "JOURNAL" /\ TextHasTransferOut(tx.original_text))
        journal_ins == SelectSeq(txs, LAMBDA tx :
                            \/ tx.action = "JOURNAL_IN"
                            \/ tx.action = "JOURNAL" /\ TextHasTransferIn(tx.original_text))
        sells == SelectSeq(txs, LAMBDA tx : tx.action = "SELL")
    IN  buys \o journal_outs \o journal_ins \o sells

RECURSIVE OrderedTransactions(_, _)
OrderedTransactions(unique_transactions, keys) ==
    IF keys = {} THEN <<>>
    ELSE LET key == CHOOSE k \in keys : \A l \in keys : KeyBefore(k, l)
             txs == SelectSeq(unique_transactions,
                              LAMBDA tx : tx.ticker = key[1] /\ tx.date = key[2])
         IN  OrderedGroup(txs) \o OrderedTransactions(unique_transactions, keys \ {key})

\* sorted(output_transactions, key=lambda t: t['date']): stable
RECURSIVE SortedByDate(_, _)
SortedByDate(outs, dates) ==
    IF dates = {} THEN <<>>
    ELSE LET d == CHOOSE e \in dates : \A f \in dates : e <= f
         IN  SelectSeq(outs, LAMBDA o : o.date = d) \o SortedByDate(outs, dates \ {d})

CleanTransactionsResult(txs) ==
    LET unique_transactions == DeduplicateTransactions(txs)
        keys == {<<unique_transactions[k].ticker, unique_transactions[k].date>> :
                    k \in DOMAIN unique_transactions}
        ordered_transactions == OrderedTransactions(unique_transactions, keys)
        output_transactions == [k \in DOMAIN ordered_transactions |->
                                   ConvertTransactionToOutput(ordered_transactions[k])]
    IN  SortedByDate(output_transactions,
                     {output_transactions[k].date : k \in DOMAIN output_transactions})

CleanTransactions ==
    /\ td_output = <<>>
    /\ td_transactions # <<>>
    /\ td_output' = <<CleanTransactionsResult(td_transactions)>>
    /\ UNCHANGED <<td_transactions, engineVars, ledgerVars, rateVars, showVars,
                   parallelVars>>

\* what the extraction gives: trades and journals of a Norbert's Gambit on
\* DLR and a trade of another ticker, from statements and confirmations,
\* journals with a price and a fee, generic journals whose line has one,
\* neither or both directions
ExtractedTxns ==
    {NewTdTransaction(11, "DLR", "BUY", 1, 2, 1, "CAD", "Statement.pdf", ""),
     NewTdTransaction(11, "DLR", "SELL", 1, 2, 1, "USD", "Statement.pdf", ""),
     NewTdTransaction(10, "DLR", "SELL", 1, 2, 1, "USD", "Confirmation.pdf", ""),
     NewTdTransaction(11, "DLR", "JOURNAL_IN", 1, 2, 0, "CAD", "Statement.pdf", "Transfer In"),
     NewTdTransaction(11, "DLR", "JOURNAL_OUT", 1, 2, 1, "USD", "Confirmation.pdf", "Transfer Out"),
     NewTdTransaction(11, "DLR", "JOURNAL", 1, 2, 0, "USD", "Statement.pdf", "Transfer Out"),
     NewTdTransaction(11, "DLR", "JOURNAL", 2, 0, 0, "USD", "Statement.pdf", "Transfer"),
     NewTdTransaction(11, "DLR", "JOURNAL", 2, 0, 0, "CAD", "Statement.pdf",
                      "Transfer Out / Transfer In"),
     NewTdTransaction(10, "X", "BUY", 1, 2, 1, "CAD", "Confirmation.pdf", ""),
     NewTdTransaction(11, "X", "SELL", 1, 2, 1, "CAD", "Statement.pdf", "")}

InitConverter ==
    /\ EngineIdle
    /\ NoLedger
    /\ NoTable
    /\ NoShow
    /\ NoParallel
    /\ td_transactions \in SeqsUpTo(ExtractedTxns, MaxExtracted)
    /\ td_output = <<>>

NextConverter == CleanTransactions

SpecConverter == InitConverter /\ [][NextConverter]_vars

\* the list clean_transactions returned
Output == td_output[1]

\* how many times x is in the list s
Count(x, s) == Cardinality({k \in DOMAIN s : s[k] = x})

\* the transactions that survive deduplication, as they are written
Survivors ==
    LET unique_transactions == DeduplicateTransactions(td_transactions)
    IN  [k \in DOMAIN unique_transactions |->
            ConvertTransactionToOutput(unique_transactions[k])]

----------------------------------------------------------------------------
\* C23: every journal the converter writes (JOURNAL, JOURNAL_IN or
\* JOURNAL_OUT) has price 0 and commission 0, whatever was extracted, and a
\* description of the form 'TD Journal (...)'; a BUY or SELL has a description
\* of the form 'TD Trade - ...'.
JournalsWrittenFree ==
    td_output # <<>>
    => \A k \in DOMAIN Output :
          /\ IsJournal(Output[k].action)
             => /\ Output[k].price = 0
                /\ Output[k].commission = 0
                /\ Output[k].description[1] = "TD Journal ("
          /\ Output[k].action \in {"BUY", "SELL"}
             => Output[k].description[1] = "TD Trade - "

----------------------------------------------------------------------------
\* C24: in the output of clean_transactions, within one ticker and date every
\* BUY comes before every SELL and every JOURNAL_IN before every JOURNAL_OUT,
\* and the list is in date order.
OrderedWithinDate ==
    td_output # <<>>
    => \A j, k \in DOMAIN Output :
          j < k
          => /\ Output[j].date <= Output[k].date
             /\ (Output[j].ticker = Output[k].ticker /\ Output[j].date = Output[k].date)
                => /\ ~ (Output[j].action = "SELL" /\ Output[k].action = "BUY")
                   /\ ~ (Output[j].action = "JOURNAL_OUT" /\ Output[k].action = "JOURNAL_IN")

----------------------------------------------------------------------------
\* C25: clean_transactions writes every transaction that survives the
\* deduplication exactly once, generic journals included whatever their text
\* holds: none is dropped and none is written twice.
EverySurvivorOnce ==
    td_output # <<>>
    => /\ Len(Output) = Len(Survivors)
       /\ \A k \in DOMAIN Survivors : Count(Survivors[k], Output) = Count(Survivors[k], Survivors)

----------------------------------------------------------------------------
(* Two TickerGains objects, one per ticker, run side by side over the     *)
(* transactions of one ledger, sharing the rate tables                    *)

\* the longest ledger the two engines share
MaxShared == 4

SliceOfAll(objects, tkr) == [x \in DOMAIN objects |-> x]

\* filter_by(tickers=[tkr]) of the ledger: the objects of the ticker, in the
\* order of the ledger
Slice(objects, tkr) ==
    SelectSeq([x \in DOMAIN objects |-> x],
              LAMBDA x : LambdaFilter(objects[x], [NoFilter EXCEPT !.tickers = {tkr}]))

\* TickerGains(ticker) about to run add_transactions over the objects of slice
NewEngine(slice) ==
    [share_balance |-> 0, total_acb |-> 0, transactions |-> slice, i |-> 1,
     pc |-> IF slice = <<>> THEN "done" ELSE "add", err |-> "none", steps |-> 0]

\* One step of the engine E of the ticker tkr over the objects: add_rate and
\* _add_transaction when E.pc = "add", the superficial-loss check and the end
\* of the loop iteration when E.pc = "superficial".  The rate tables are read
\* through get_rate only.
EngineStep(tkr, E, objects) ==
    LET txs == [k \in DOMAIN E.transactions |-> objects[E.transactions[k]]]
        x == E.transactions[E.i]
    IN  IF E.pc = "add"
        THEN LET rate == AddRate(txs[E.i], exchange_rates)
             IN  IF ~ rate.ok
                 THEN [E |-> [E EXCEPT !.pc = "failed", !.err = rate.error,
                                       !.steps = @ + 1],
                       objects |-> objects]
                 ELSE LET t == [txs[E.i] EXCEPT !.exchange_rate = rate.rate]
                          r == AddTransaction(t, E.share_balance, E.total_acb)
                      IN  [E |-> [E EXCEPT
                                    !.share_balance = r.share_balance,
                                    !.total_acb = r.total_acb,
                                    !.pc = IF r.raised THEN "failed" ELSE "superficial",
                                    !.err = IF r.raised THEN "NegativeBalance" ELSE "none",
                                    !.steps = @ + 1],
                           objects |-> [objects EXCEPT ![x] = r.t]]
        ELSE LET s == IsSuperficialLoss(txs, E.i, tkr)
             IN  IF s = "ValueError"
                 THEN [E |-> [E EXCEPT !.pc = "failed", !.err = "ValueError",
                                       !.steps = @ + 1],
                       objects |-> objects]
                 ELSE [E |-> [E EXCEPT
                                !.total_acb = IF s = "TRUE"
                                              THEN ReverseLoss(@, txs[E.i].capital_gain)
                                              ELSE @,
                                !.i = @ + 1,
                                !.pc = IF E.i + 1 > Len(E.transactions)
                                       THEN "done" ELSE "add",
                                !.steps = @ + 1],
                       objects |-> IF s = "TRUE"
                                   THEN [objects EXCEPT ![x] = SetSuperficialLoss(txs[E.i])]
                                   ELSE objects]

ParallelApply(tkr) ==
    /\ engines # <<>>
    /\ engines[tkr].pc = "add"
    /\ LET r == EngineStep(tkr, engines[tkr], shared.objects)
       IN  /\ engines' = [engines EXCEPT ![tkr] = r.E]
           /\ shared' = [shared EXCEPT !.objects = r.objects]
    /\ UNCHANGED <<engineVars, ledgerVars, rateVars, showVars, converterVars>>

ParallelCheckSuperficial(tkr) ==
    /\ engines # <<>>
    /\ engines[tkr].pc = "superficial"
    /\ LET r == EngineStep(tkr, engines[tkr], shared.objects)
       IN  /\ engines' = [engines EXCEPT ![tkr] = r.E]
           /\ shared' = [shared EXCEPT !.objects = r.objects]
    /\ UNCHANGED <<engineVars, ledgerVars, rateVars, showVars, converterVars>>

\* the transactions of the shared ledger: for each ticker a purchase, a sale
\* at a loss in USD and a sale at a gain, on three days
SharedTxns ==
    UNION {{NewTransaction(10, k, "BUY", 2, 2, 0, "CAD"),
            NewTransaction(11, k, "SELL", 1, 1, 1, "USD"),
            NewTransaction(12, k, "SELL", 2, 3, 0, "CAD")} : k \in Tickers}

\* the ledgers in date order
SharedLedgers ==
    {l \in SeqsUpTo(SharedTxns, MaxShared) :
        \A j \in 1..(Len(l) - 1) : l[j].date <= l[j + 1].date}

InitParallel ==
    /\ EngineIdle
    /\ NoLedger
    /\ NoTable
    /\ NoShow
    /\ NoConverter
    /\ \E l \in SharedLedgers :
          /\ shared = [objects |-> l, handed |-> l]
          /\ engines = [k \in Tickers |-> NewEngine(Slice(l, k))]

NextParallel ==
    \E k \in Tickers : ParallelApply(k) \/ ParallelCheckSuperficial(k)

SpecParallel == InitParallel /\ [][NextParallel]_vars

\* the engine E of the ticker tkr run on its own over the objects, for n
\* steps or to its end
RECURSIVE RunFor(_, _, _, _)
RunFor(tkr, E, objects, n) ==
    IF n = 0 \/ E.pc \in {"done", "failed"} THEN [E |-> E, objects |-> objects]
    ELSE LET r == EngineStep(tkr, E, objects)
         IN  RunFor(tkr, r.E, r.objects, n - 1)

\* more steps than an engine takes over the ledger
ToTheEnd == 2 * Len(shared.handed) + 1

\* the two engines run one after the other over the ledger as it was handed
OneAfterTheOther ==
    LET first == RunFor("A", NewEngine(engines["A"].transactions), shared.handed, ToTheEnd)
        second == RunFor("B", NewEngine(engines["B"].transactions), first.objects, ToTheEnd)
    IN  [engines |-> [k \in Tickers |-> IF k = "A" THEN first.E ELSE second.E],
         objects |-> second.objects]

Finished(k) == engines[k].pc \in {"done", "failed"}

----------------------------------------------------------------------------
\* C21: two engines of different tickers, each over its ticker's slice of one
\* ledger and sharing the rate tables, stamp under every interleaving of their
\* steps what they stamp when run one after the other: after any number of
\* steps each engine and the transactions of its slice are as if the engine
\* had run alone, a transaction outside the two slices is untouched, the rate tables
\* are never modified, and when both engines have ended the ledger is the one
\* the sequential run leaves.
ParallelAsSequential ==
    engines # <<>>
    => /\ exchange_rates = RateTables
       /\ \A k \in Tickers :
             LET alone == RunFor(k, NewEngine(engines[k].transactions), shared.handed,
                                 engines[k].steps)
             IN  /\ engines[k] = alone.E
                 /\ \A j \in DOMAIN engines[k].transactions :
                       shared.objects[engines[k].transactions[j]]
                           = alone.objects[engines[k].transactions[j]]
       /\ \A x \in DOMAIN shared.objects :
             (\A k \in Tickers : \A j \in DOMAIN engines[k].transactions :
                 engines[k].transactions[j] # x)
             => shared.objects[x] = shared.handed[x]
       /\ (\A k \in Tickers : Finished(k))
          => /\ shared.objects = OneAfterTheOther.objects
             /\ engines = OneAfterTheOther.engines

\* both engines are in the middle of a loop iteration at once, each past a
\* purchase, A on a sale it has just stamped with a loss
ParallelAsSequentialWitness ==
    /\ engines # <<>>
    /\ \A k \in Tickers : engines[k].pc = "superficial" /\ engines[k].i = 2
    /\ LET t == shared.objects[engines["A"].transactions[2]]
       IN  t.action = "SELL" /\ t.stamped /\ t.capital_gain < 0

====
